---------------------------- MODULE Spec2Model ----------------------------
(***************************************************************************)
(* Model of the ingestion / deduplication path of the knowledge hub:       *)
(*   - LangChainVectorStore (src/ingestion/langchain_vector_store.py):     *)
(*     the class-level lock table, check_document_exists, add_documents;   *)
(*   - upload_document (main.py): the synchronous duplicate check, the     *)
(*     response, and the background add it schedules.                      *)
(*   - Retriever, RAGPipeline and OpenAIGenerator (src/retrieval,          *)
(*     src/rag_pipeline.py, src/generation): query and streaming query;    *)
(*   - DocumentProcessor (src/ingestion/document_processor.py): the        *)
(*     chunker and the doc_id of a document.                               *)
(*   - VectorStore (src/ingestion/vector_store.py): the direct store's     *)
(*     add_documents, _check_document_exists and delete_documents.         *)
(* The vector index (Qdrant), the embedder and the completion service are  *)
(* external: each of their calls either answers or raises.                 *)
(***************************************************************************)
EXTENDS Integers, FiniteSets, Sequences, TLC

---------------------------------------------------------------------------
(* Bounds of the model.                                                    *)
NumCalls == 3        \* direct add_documents calls
NumUploads == 2      \* upload requests
NumDocs == 2         \* distinct non-empty byte contents
NumChunks == 2       \* chunks of a non-empty document
BatchSize == 1       \* chunks embedded and upserted per round of add_texts

Calls == 1..(IF NumCalls > NumUploads THEN NumCalls ELSE NumUploads)
Contents == 0..NumDocs          \* 0: content from which no chunk is extracted
NoDoc == 0                      \* doc_id is None (the chunk list is empty)

(* hashlib.md5(file_content).hexdigest(): the digest of content b, a value *)
(* of another type than the content, without collisions on the contents    *)
(* of the model.  The filename is no argument of it.                       *)
Md5(b) == (7 * b + 3) % 11

DocIds == {Md5(b) : b \in 1..NumDocs}

(* Number of chunks process_upload produces from a content.                *)
ChunksOf(b) == IF b = 0 THEN 0 ELSE NumChunks

(* doc_id = chunks[0]["metadata"]["doc_id"] if chunks else None            *)
DocIdOfChunks(b) == IF ChunksOf(b) = 0 THEN NoDoc ELSE Md5(b)

VARIABLES
  index,          \* the collection: set of points [doc, idx, shape, by]
  _doc_locks,     \* LangChainVectorStore._doc_locks: keys that have a lock
  holder,         \* for each lock of the table, the call inside `with doc_lock`
  _locks_mutex,   \* call holding LangChainVectorStore._locks_mutex, 0 if free
  loop,           \* upload handler running on the event loop, 0 if none
  pc,             \* position of each request handler
  tpc,            \* position of each add_documents call
  kind,           \* "none", "add" (direct add_documents call) or "upload"
  content,        \* bytes of the request (the chunks' origin)
  ex,             \* result of the call's last check_document_exists
  rd,             \* outcome of the index reads of a check in progress
  fault,          \* an external call raised inside the request
  resp,           \* response of upload_document
  tasks,          \* number of background tasks the upload has scheduled
  result,         \* what add_documents returned
  n,              \* chunks of the call upserted so far by add_texts
  respAtIssue,    \* history: same-content uploads answered when the request was issued
  doneAtIssue,    \* history: same-content adds returned when the request was issued
  rag,            \* the RAGPipeline call in progress (locals of query / query_streaming)
  runs,           \* number of RAGPipeline calls started
  delResp,        \* the last delete request and its answer
  text,           \* _create_chunks: the input text
  chunk_size,     \* DocumentProcessor.chunk_size
  chunk_overlap,  \* DocumentProcessor.chunk_overlap
  start,          \* _create_chunks: window start
  chunks,         \* _create_chunks: windows appended so far
  cpc,            \* position of the _create_chunks call
  ing,            \* ingestions made by the document processors
  lock_of,        \* _doc_locks: the lock object stored under each doc_id, 0 if none
  made,           \* threading.Lock objects created so far
  th,             \* threads calling _get_doc_lock: position, argument, result
  handed          \* history: the (doc_id, lock object) pairs _get_doc_lock returned

apiVars == <<rag, runs, delResp>>
procVars == <<text, chunk_size, chunk_overlap, start, chunks, cpc, ing>>
lockVars == <<lock_of, made, th, handed>>

vars == <<index, _doc_locks, holder, _locks_mutex, loop, pc, tpc, kind, content,
          ex, rd, fault, resp, tasks, result, n, respAtIssue, doneAtIssue,
          apiVars, procVars, lockVars>>

storeVars == <<index, _doc_locks, holder, _locks_mutex>>
histVars == <<respAtIssue, doneAtIssue>>

doc(c) == DocIdOfChunks(content[c])

---------------------------------------------------------------------------
(* Points.  A point written by LangChain's Qdrant store has the payload    *)
(* {page_content, metadata: {..., doc_id}} ("nested"); a point written by  *)
(* the direct store has the payload {text, ..., doc_id} ("flat").          *)
Point(d, i, s, c) == [doc |-> d, idx |-> i, shape |-> s, by |-> c]

(* Documents that the direct store may have indexed before the service    *)
(* starts.                                                                 *)
LegacyDocs == {Md5(1)}

FlatPoints(d) == {Point(d, i, "flat", 0) : i \in 0..(NumChunks - 1)}

(* client.scroll with a filter on `key`, limit 1: is there a match?        *)
(* "metadata.doc_id" matches nested payloads, "doc_id" flat ones.          *)
ScrollNoMatch(key, d) == FALSE
Scroll(key, d) ==
  \E p \in index :
     p.doc = d /\ p.shape = (IF key = "metadata.doc_id" THEN "nested" ELSE "flat")

Bool(b) == IF b THEN "true" ELSE "false"

(* except docid_exc: ... falls through to `return False`.                  *)
OnLookupFailureRaise == "raised"
OnLookupFailure == "false"

(* The key of the lock table that an add for doc_id d uses.                *)
LockKeyGlobal(d) == Md5(1)
LockKey(d) == d

(* `with doc_lock:` blocks until the lock is free.                         *)
LockNotExclusive(k) == TRUE
LockFree(k) == holder[k] = 0

(* Leaving the `with doc_lock:` block releases the lock, on every path.    *)
NoRelease(k) == holder
Release(k) == [holder EXCEPT ![k] = 0]

(* except Exception as e: ... return False                                 *)
OnAddError == "false"

(* status="duplicate" if is_duplicate else "processing"                    *)
UploadStatusAlwaysProcessing(dup) == "processing"
UploadStatus(dup) == IF dup THEN "duplicate" ELSE "processing"

(* BackgroundTasks.add_task: the task runs once the response was sent.     *)
TaskRunsWhenScheduled(c) == TRUE
TaskRunnable(c) == resp[c] # "none"

---------------------------------------------------------------------------
(* The outcome of a retrieval: the formatted results, or an exception.     *)
Outcome(r, ds, f) == [raised |-> r, docs |-> ds, fault |-> f]
NoOutcome == Outcome(FALSE, <<>>, "unset")

NoContext == [kind |-> "unset", blocks |-> <<>>]

(* No RAGPipeline call is in progress.                                     *)
IdleRag ==
  [pc |-> "idle", kind |-> "none", top_k |-> <<>>, question |-> 0,
   ctx |-> NoOutcome, documents |-> NoOutcome, context |-> NoContext,
   max_tokens |-> 0, sources |-> <<>>, num_sources |-> 0, out |-> "none",
   arrived |-> <<>>, yielded |-> <<>>, retrievals |-> 0, awaits |-> "none"]

NoDelete == [doc_id |-> NoDoc, status |-> "none"]

InitApi ==
  /\ rag = IdleRag
  /\ runs = 0
  /\ delResp = NoDelete

(* No thread is inside _get_doc_lock.                                      *)
Threads == Calls
IdleThread == [pc |-> "idle", doc_id |-> NoDoc, absent |-> FALSE, ret |-> 0]

InitLocks ==
  /\ lock_of = [d \in DocIds |-> 0]
  /\ made = 0
  /\ th = [t \in Threads |-> IdleThread]
  /\ handed = {}

(* No _create_chunks call, no ingestion.                                   *)
InitProc ==
  /\ text = <<>>
  /\ chunk_size = 0
  /\ chunk_overlap = 0
  /\ start = 0
  /\ chunks = <<>>
  /\ cpc = "idle"
  /\ ing = <<>>

Init ==
  /\ InitApi
  /\ InitLocks
  /\ InitProc
  /\ \E L \in SUBSET LegacyDocs : index = UNION {FlatPoints(d) : d \in L}
  /\ _doc_locks = {}
  /\ holder = [k \in DocIds |-> 0]
  /\ _locks_mutex = 0
  /\ loop = 0
  /\ pc = [c \in Calls |-> "idle"]
  /\ tpc = [c \in Calls |-> "none"]
  /\ kind = [c \in Calls |-> "none"]
  /\ content = [c \in Calls |-> 0]
  /\ ex = [c \in Calls |-> "none"]
  /\ rd = [c \in Calls |-> "none"]
  /\ fault = [c \in Calls |-> FALSE]
  /\ resp = [c \in Calls |-> "none"]
  /\ tasks = [c \in Calls |-> 0]
  /\ result = [c \in Calls |-> "none"]
  /\ n = [c \in Calls |-> 0]
  /\ respAtIssue = [c \in Calls |-> {}]
  /\ doneAtIssue = [c \in Calls |-> {}]

(* Requests are numbered in the order in which they are issued.            *)
Issuable(c) == pc[c] = "idle" /\ \A x \in Calls : x < c => pc[x] # "idle"

(* Non-empty contents are numbered in the order of their first use.        *)
Fresh(b) == \A x \in 1..NumDocs : x < b => \E y \in Calls : kind[y] # "none" /\ content[y] = x

(* What a request records when it is issued.                               *)
Answered(b) == {x \in Calls : content[x] = b /\ kind[x] = "upload"
                               /\ resp[x] \in {"processing", "duplicate"}}
Returned(b) == {x \in Calls : content[x] = b /\ kind[x] # "none" /\ tpc[x] = "done"}

---------------------------------------------------------------------------
(* Requests.                                                               *)

(* A direct call vector_store.add_documents(chunks), the chunks being      *)
(* those of content b.                                                     *)
AddCall(c) ==
  /\ Issuable(c)
  /\ \E b \in Contents :
       /\ Fresh(b)
       /\ content' = [content EXCEPT ![c] = b]
       /\ respAtIssue' = [respAtIssue EXCEPT ![c] = Answered(b)]
       /\ doneAtIssue' = [doneAtIssue EXCEPT ![c] = Returned(b)]
  /\ kind' = [kind EXCEPT ![c] = "add"]
  /\ pc' = [pc EXCEPT ![c] = "direct"]
  /\ tpc' = [tpc EXCEPT ![c] = "add_entry"]
  /\ UNCHANGED <<storeVars, loop, ex, rd, fault, resp, tasks, result, n>>
  /\ UNCHANGED <<apiVars, procVars, lockVars>>

(* upload_document up to `await file.read()`: the extension is validated;  *)
(* the HTTPException of an unsupported type is caught by the handler's own *)
(* `except Exception` and answered as an error.                            *)
UploadAccept(c) ==
  /\ Issuable(c)
  /\ c <= NumUploads
  /\ \E b \in Contents :
       /\ Fresh(b)
       /\ content' = [content EXCEPT ![c] = b]
       /\ respAtIssue' = [respAtIssue EXCEPT ![c] = Answered(b)]
       /\ doneAtIssue' = [doneAtIssue EXCEPT ![c] = Returned(b)]
  /\ kind' = [kind EXCEPT ![c] = "upload"]
  /\ \/ /\ pc' = [pc EXCEPT ![c] = "up_read"]
        /\ resp' = resp
     \/ /\ pc' = [pc EXCEPT ![c] = "done"]
        /\ resp' = [resp EXCEPT ![c] = "error"]
  /\ UNCHANGED <<storeVars, loop, tpc, ex, rd, fault, tasks, result, n>>
  /\ UNCHANGED <<apiVars, procVars, lockVars>>

(* The handler resumes on the event loop, which it keeps until it returns  *)
(* (no await follows): process_upload, then the doc_id of the chunks.      *)
(* `if doc_id and ...` calls check_document_exists only for a doc_id.      *)
UploadProcess(c) ==
  /\ pc[c] = "up_read"
  /\ loop = 0
  /\ \/ /\ pc' = [pc EXCEPT ![c] = "done"]        \* process_upload raises
        /\ resp' = [resp EXCEPT ![c] = "error"]
        /\ UNCHANGED <<loop, ex>>
     \/ /\ doc(c) = NoDoc
        /\ loop' = c
        /\ pc' = [pc EXCEPT ![c] = "up_checked"]
        /\ ex' = [ex EXCEPT ![c] = "false"]
        /\ resp' = resp
     \/ /\ doc(c) # NoDoc
        /\ loop' = c
        /\ pc' = [pc EXCEPT ![c] = "up_check1"]
        /\ UNCHANGED <<ex, resp>>
  /\ UNCHANGED <<storeVars, tpc, kind, content, rd, fault, tasks, result, n, histVars>>
  /\ UNCHANGED <<apiVars, procVars, lockVars>>

---------------------------------------------------------------------------
(* check_document_exists(doc_id), called by the handler (pc) and inside    *)
(* add_documents (tpc).  First lookup: scroll on metadata.doc_id.  A hit   *)
(* returns True; no hit goes to `return False` without a second lookup.    *)
(* Only when the scroll raises is the top-level doc_id looked up.          *)
MetadataLookup(c, d) ==
  \/ /\ ex' = [ex EXCEPT ![c] = Bool(Scroll("metadata.doc_id", d))]
     /\ rd' = [rd EXCEPT ![c] = "ok"]
     /\ fault' = fault
  \/ /\ rd' = [rd EXCEPT ![c] = "fail"]
     /\ fault' = [fault EXCEPT ![c] = TRUE]
     /\ ex' = [ex EXCEPT ![c] = "none"]

LegacyLookup(c, d) ==
  \/ /\ ex' = [ex EXCEPT ![c] = Bool(Scroll("doc_id", d))]
     /\ rd' = [rd EXCEPT ![c] = "fail_ok"]
  \/ /\ ex' = [ex EXCEPT ![c] = OnLookupFailure]
     /\ rd' = [rd EXCEPT ![c] = "fail_fail"]

UploadExistsMetadata(c) ==
  /\ pc[c] = "up_check1"
  /\ MetadataLookup(c, doc(c))
  /\ pc' = [pc EXCEPT ![c] = IF rd'[c] = "ok" THEN "up_checked" ELSE "up_check2"]
  /\ UNCHANGED <<storeVars, loop, tpc, kind, content, resp, tasks, result, n, histVars>>
  /\ UNCHANGED <<apiVars, procVars, lockVars>>

UploadExistsLegacy(c) ==
  /\ pc[c] = "up_check2"
  /\ LegacyLookup(c, doc(c))
  /\ pc' = [pc EXCEPT ![c] = "up_checked"]
  /\ UNCHANGED <<storeVars, loop, tpc, kind, content, fault, resp, tasks, result, n, histVars>>
  /\ UNCHANGED <<apiVars, procVars, lockVars>>

(* analyze_document (which returns a default analysis when the completion  *)
(* call fails), then background_tasks.add_task(add_documents, chunks).     *)
UploadSchedule(c) ==
  /\ pc[c] = "up_checked"
  /\ ex[c] \in {"true", "false"}
  /\ tasks' = [tasks EXCEPT ![c] = @ + 1]
  /\ pc' = [pc EXCEPT ![c] = "up_return"]
  /\ UNCHANGED <<storeVars, loop, tpc, kind, content, ex, rd, fault, resp, result, n, histVars>>
  /\ UNCHANGED <<apiVars, procVars, lockVars>>

(* return UploadResponse(status=...): the handler leaves the event loop    *)
(* and its locals are gone.                                                *)
UploadRespond(c) ==
  /\ pc[c] = "up_return"
  /\ resp' = [resp EXCEPT ![c] = UploadStatus(ex[c] = "true")]
  /\ loop' = 0
  /\ pc' = [pc EXCEPT ![c] = "done"]
  /\ ex' = [ex EXCEPT ![c] = "none"]
  /\ rd' = [rd EXCEPT ![c] = "none"]
  /\ UNCHANGED <<storeVars, tpc, kind, content, fault, tasks, result, n, histVars>>
  /\ UNCHANGED <<apiVars, procVars, lockVars>>

(* The scheduled task starts in a worker thread.                           *)
BackgroundRun(c) ==
  /\ tasks[c] > 0
  /\ tpc[c] = "none"
  /\ TaskRunnable(c)
  /\ tpc' = [tpc EXCEPT ![c] = "add_entry"]
  /\ UNCHANGED <<storeVars, loop, pc, kind, content, ex, rd, fault, resp, tasks, result, n, histVars>>
  /\ UNCHANGED <<apiVars, procVars, lockVars>>

---------------------------------------------------------------------------
(* add_documents(chunks).                                                  *)

InLock == {"add_check1", "add_check2", "add_checked", "adding"}

(* if not chunks: return False                                             *)
AddEmpty(c) ==
  /\ tpc[c] = "add_entry"
  /\ doc(c) = NoDoc
  /\ result' = [result EXCEPT ![c] = "false"]
  /\ tpc' = [tpc EXCEPT ![c] = "done"]
  /\ UNCHANGED <<storeVars, loop, pc, kind, content, ex, rd, fault, resp, tasks, n, histVars>>
  /\ UNCHANGED <<apiVars, procVars, lockVars>>

(* _get_doc_lock: `with cls._locks_mutex:` is entered ...                  *)
GetDocLockEnter(c) ==
  /\ tpc[c] = "add_entry"
  /\ doc(c) # NoDoc
  /\ _locks_mutex = 0
  /\ _locks_mutex' = c
  /\ tpc' = [tpc EXCEPT ![c] = "in_mutex"]
  /\ UNCHANGED <<index, _doc_locks, holder, loop, pc, kind, content, ex, rd, fault,
                 resp, tasks, result, n, histVars>>
  /\ UNCHANGED <<apiVars, procVars, lockVars>>

(* ... the lock of the doc_id is created when the table has none, the      *)
(* mutex is left and the lock returned.                                    *)
GetDocLockExit(c) ==
  /\ tpc[c] = "in_mutex"
  /\ _doc_locks' = _doc_locks \cup {LockKey(doc(c))}
  /\ _locks_mutex' = 0
  /\ tpc' = [tpc EXCEPT ![c] = "acquire"]
  /\ UNCHANGED <<index, holder, loop, pc, kind, content, ex, rd, fault,
                 resp, tasks, result, n, histVars>>
  /\ UNCHANGED <<apiVars, procVars, lockVars>>

(* with doc_lock:                                                          *)
AcquireDocLock(c) ==
  /\ tpc[c] = "acquire"
  /\ LockFree(LockKey(doc(c)))
  /\ holder' = [holder EXCEPT ![LockKey(doc(c))] = c]
  /\ tpc' = [tpc EXCEPT ![c] = "add_check1"]
  /\ UNCHANGED <<index, _doc_locks, _locks_mutex, loop, pc, kind, content, ex, rd,
                 fault, resp, tasks, result, n, histVars>>
  /\ UNCHANGED <<apiVars, procVars, lockVars>>

AddExistsMetadata(c) ==
  /\ tpc[c] = "add_check1"
  /\ MetadataLookup(c, doc(c))
  /\ tpc' = [tpc EXCEPT ![c] = IF rd'[c] = "ok" THEN "add_checked" ELSE "add_check2"]
  /\ UNCHANGED <<storeVars, loop, pc, kind, content, resp, tasks, result, n, histVars>>
  /\ UNCHANGED <<apiVars, procVars, lockVars>>

AddExistsLegacy(c) ==
  /\ tpc[c] = "add_check2"
  /\ LegacyLookup(c, doc(c))
  /\ tpc' = [tpc EXCEPT ![c] = "add_checked"]
  /\ UNCHANGED <<storeVars, loop, pc, kind, content, fault, resp, tasks, result, n, histVars>>
  /\ UNCHANGED <<apiVars, procVars, lockVars>>

(* if self.check_document_exists(doc_id): ... return False                 *)
AddSkipDuplicate(c) ==
  /\ tpc[c] = "add_checked"
  /\ ex[c] = "true"
  /\ result' = [result EXCEPT ![c] = "false"]
  /\ holder' = Release(LockKey(doc(c)))
  /\ tpc' = [tpc EXCEPT ![c] = "done"]
  /\ rd' = [rd EXCEPT ![c] = "none"]
  /\ UNCHANGED <<index, _doc_locks, _locks_mutex, loop, pc, kind, content, ex,
                 fault, resp, tasks, n, histVars>>
  /\ UNCHANGED <<apiVars, procVars, lockVars>>

(* vector_store.add_texts embeds and upserts the chunks batch by batch,    *)
(* each point under a fresh id; after the last batch add_documents returns *)
(* True and leaves the `with` block.                                       *)
Batch(c) == {Point(doc(c), i, "nested", c) :
               i \in {j \in 0..(ChunksOf(content[c]) - 1) : j >= n[c] /\ j < n[c] + BatchSize}}

AddTextsBatch(c) ==
  /\ \/ tpc[c] = "add_checked" /\ ex[c] = "false"
     \/ tpc[c] = "adding"
  /\ index' = index \cup Batch(c)
  /\ n' = [n EXCEPT ![c] = @ + BatchSize]
  /\ IF n[c] + BatchSize >= ChunksOf(content[c])
       THEN /\ result' = [result EXCEPT ![c] = "true"]
            /\ holder' = Release(LockKey(doc(c)))
            /\ tpc' = [tpc EXCEPT ![c] = "done"]
       ELSE /\ tpc' = [tpc EXCEPT ![c] = "adding"]
            /\ UNCHANGED <<result, holder>>
  /\ rd' = [rd EXCEPT ![c] = "none"]
  /\ UNCHANGED <<_doc_locks, _locks_mutex, loop, pc, kind, content, ex, fault,
                 resp, tasks, histVars>>
  /\ UNCHANGED <<apiVars, procVars, lockVars>>

(* The embedding or the upsert of a batch raises: the points of earlier    *)
(* batches stay, `except Exception` logs and returns.                      *)
AddTextsFail(c) ==
  /\ \/ tpc[c] = "add_checked" /\ ex[c] = "false"
     \/ tpc[c] = "adding"
  /\ fault' = [fault EXCEPT ![c] = TRUE]
  /\ result' = [result EXCEPT ![c] = OnAddError]
  /\ holder' = Release(LockKey(doc(c)))
  /\ tpc' = [tpc EXCEPT ![c] = "done"]
  /\ rd' = [rd EXCEPT ![c] = "none"]
  /\ UNCHANGED <<index, _doc_locks, _locks_mutex, loop, pc, kind, content, ex,
                 resp, tasks, n, histVars>>
  /\ UNCHANGED <<apiVars, procVars, lockVars>>

---------------------------------------------------------------------------
AddStep(c) ==
  \/ AddEmpty(c)
  \/ GetDocLockEnter(c)
  \/ GetDocLockExit(c)
  \/ AcquireDocLock(c)
  \/ AddExistsMetadata(c)
  \/ AddExistsLegacy(c)
  \/ AddSkipDuplicate(c)
  \/ AddTextsBatch(c)
  \/ AddTextsFail(c)

UploadStep(c) ==
  \/ UploadAccept(c)
  \/ UploadProcess(c)
  \/ UploadExistsMetadata(c)
  \/ UploadExistsLegacy(c)
  \/ UploadSchedule(c)
  \/ UploadRespond(c)
  \/ BackgroundRun(c)

(* The store under direct add_documents calls.                             *)
Next == \E c \in Calls : AddCall(c) \/ AddStep(c)

Spec == Init /\ [][Next]_vars

(* The upload endpoint over the store.                                     *)
NextUpload == \E c \in Calls : UploadStep(c) \/ AddStep(c)

SpecUpload == Init /\ [][NextUpload]_vars

---------------------------------------------------------------------------
(* Retrieval and generation: Retriever, RAGPipeline, OpenAIGenerator and   *)
(* the /query, /query/stream and /documents/{doc_id} handlers.             *)

MaxRuns == 2         \* RAGPipeline calls
MaxK == 2            \* largest top_k of a request
MaxFragments == 2    \* fragments of a streamed completion
NumApiAdds == 1      \* add_documents calls running beside the deletes

DefaultK == 5        \* k = top_k if top_k else 5
FullBudget == 1000   \* generate: max_tokens = 1000
ReducedBudget == 300 \* generate: max_tokens = min(max_tokens, 300)
StreamBudget == 4096 \* generate_streaming: settings.openai_max_tokens

Questions == {1, 2}
(* The fragments that may arrive after `arrived`: a delta without content  *)
(* (0) or the next piece of text.                                          *)
Fragments(arrived) == {0, Len(arrived) + 1}
TopKs == {<<>>} \cup {<<k>> : k \in 0..MaxK}      \* <<>>: top_k is None

ingestVars == <<_doc_locks, holder, _locks_mutex, loop, pc, tpc, kind, content,
                ex, rd, fault, resp, tasks, result, n, respAtIssue, doneAtIssue>>

Min(a, b) == IF a <= b THEN a ELSE b

(* The text of chunk i of document d.  The first chunk of the documents    *)
(* of PhraseDocs quotes the words "No relevant documents found".           *)
PhraseDocs == {Md5(1)}
ChunkText(d, i) == [doc |-> d, idx |-> i, phrase |-> (d \in PhraseDocs /\ i = 0)]

(* The payload of a point: flat {text, filename, source, chunk_index,      *)
(* doc_id} or nested {page_content, metadata}.  The call that wrote the    *)
(* point stands for the filename it was uploaded under.                    *)
Metadata(p) == [filename |-> p.by, source |-> p.by, chunk_index |-> p.idx, doc_id |-> p.doc]
Payload(p) ==
  IF p.shape = "flat"
    THEN [text |-> ChunkText(p.doc, p.idx), filename |-> p.by, source |-> p.by,
          chunk_index |-> p.idx, doc_id |-> p.doc]
    ELSE [page_content |-> ChunkText(p.doc, p.idx), metadata |-> Metadata(p)]

(* The similarity of a point to a question: a total order of the points,   *)
(* another one for each question.                                          *)
Key(p) ==
  ((p.doc * NumChunks + p.idx) * 2 + (IF p.shape = "flat" THEN 1 ELSE 0))
     * (Cardinality(Calls) + 1) + p.by
Score(p, q) == IF q = 1 THEN Key(p) ELSE 0 - Key(p)

RECURSIVE Ranked(_, _)
Ranked(S, q) ==
  IF S = {} THEN <<>>
  ELSE LET best == CHOOSE p \in S : \A r \in S : Score(r, q) <= Score(p, q)
       IN <<best>> \o Ranked(S \ {best}, q)

(* client.search(query_vector, limit=k, with_payload=True)                 *)
Search(q, k) == SubSeq(Ranked(index, q), 1, Min(k, Cardinality(index)))

(* search_with_scores: one formatted result per hit, old and new format.   *)
FormatResult(p, q) ==
  LET payload == Payload(p) IN
  IF "text" \in DOMAIN payload
    THEN [text |-> payload.text,
          metadata |-> [filename |-> payload.filename, source |-> payload.source,
                        chunk_index |-> payload.chunk_index, doc_id |-> payload.doc_id],
          score |-> Score(p, q)]
    ELSE [text |-> payload.page_content, metadata |-> payload.metadata,
          score |-> Score(p, q)]

Formatted(q, k) == [i \in 1..Len(Search(q, k)) |-> FormatResult(Search(q, k)[i], q)]

(* except Exception as e: logger.error(...); return []                     *)
OnSearchErrorRaise(f) == Outcome(TRUE, <<>>, f)
OnSearchError(f) == Outcome(FALSE, <<>>, f)

(* Retriever.retrieve: k = top_k if top_k else 5                           *)
K(tk) == IF tk = <<>> \/ tk[1] = 0 THEN DefaultK ELSE tk[1]

(* The outcomes of Retriever.retrieve(question, top_k): the embedding of   *)
(* the query raises, the index search raises, or the hits are formatted.   *)
RetrieveOutcomes(q, tk) ==
  {OnSearchError("embed"), OnSearchError("search"),
   Outcome(FALSE, Formatted(q, K(tk)), "none")}

(* get_context_for_generation: the sentinel, or one labelled block per     *)
(* document, in the order of the retrieval.                                *)
ContextOf(docs) ==
  IF docs = <<>>
    THEN [kind |-> "sentinel", blocks |-> <<>>]
    ELSE [kind |-> "blocks",
          blocks |-> [i \in 1..Len(docs) |->
                        [idx |-> i, source |-> docs[i].metadata.filename,
                         score |-> docs[i].score, text |-> docs[i].text]]]

(* "No relevant documents found" in context                                *)
HasPhrase(context) ==
  \/ context.kind = "sentinel"
  \/ \E i \in 1..Len(context.blocks) : context.blocks[i].text.phrase

(* generate: max_tokens of the completion call                             *)
MaxTokens(context) ==
  IF HasPhrase(context) THEN Min(FullBudget, ReducedBudget) ELSE FullBudget

(* RAGPipeline.query, step 4: compile the sources                          *)
SourcesReversed(docs) ==
  [i \in 1..Len(docs) |->
     [filename |-> docs[Len(docs) + 1 - i].metadata.filename,
      source |-> docs[Len(docs) + 1 - i].metadata.source,
      chunk_index |-> docs[Len(docs) + 1 - i].metadata.chunk_index,
      relevance_score |-> docs[Len(docs) + 1 - i].score]]
SourcesOf(docs) ==
  [i \in 1..Len(docs) |->
     [filename |-> docs[i].metadata.filename, source |-> docs[i].metadata.source,
      chunk_index |-> docs[i].metadata.chunk_index, relevance_score |-> docs[i].score]]

(* generate_streaming: `yield chunk.choices[0].delta.content`              *)
YieldFirst(ys, f) == <<f>> \o ys
Yield(ys, f) == Append(ys, f)

(* POST /query: a top_k that is not None and <= 0 raises HTTPException,    *)
(* which the handler's `except Exception` answers as an error; otherwise   *)
(* rag_pipeline.query is called.                                           *)
QueryAccept ==
  /\ rag.pc \in {"idle", "done"}
  /\ runs < MaxRuns
  /\ runs' = runs + 1
  /\ \E tk \in TopKs, q \in Questions :
       rag' = IF tk # <<>> /\ tk[1] <= 0
                THEN [IdleRag EXCEPT !.pc = "done", !.kind = "query", !.top_k = tk,
                                     !.question = q, !.out = "error"]
                ELSE [IdleRag EXCEPT !.pc = "ctx", !.kind = "query", !.top_k = tk,
                                     !.question = q]
  /\ UNCHANGED <<index, ingestVars, delResp, procVars, lockVars>>

(* POST /query/stream: the response iterates rag_pipeline.query_streaming  *)
(* with request.top_k as it is.                                            *)
StreamAccept ==
  /\ rag.pc \in {"idle", "done"}
  /\ runs < MaxRuns
  /\ runs' = runs + 1
  /\ \E tk \in TopKs, q \in Questions :
       rag' = [IdleRag EXCEPT !.pc = "ctx", !.kind = "stream", !.top_k = tk,
                              !.question = q]
  /\ UNCHANGED <<index, ingestVars, delResp, procVars, lockVars>>

(* context = self.retriever.get_context_for_generation(question, top_k)    *)
RetrieveContext ==
  /\ rag.pc = "ctx"
  /\ \E o \in RetrieveOutcomes(rag.question, rag.top_k) :
       rag' = [rag EXCEPT
                 !.ctx = o,
                 !.retrievals = @ + 1,
                 !.context = IF o.raised THEN NoContext ELSE ContextOf(o.docs),
                 !.out = IF o.raised THEN "error" ELSE @,
                 !.pc = IF o.raised THEN "done"
                        ELSE IF rag.kind = "query" THEN "documents" ELSE "stream_open"]
  /\ UNCHANGED <<index, ingestVars, runs, delResp, procVars, lockVars>>

(* documents = self.retriever.retrieve(question, top_k)                    *)
RetrieveDocuments ==
  /\ rag.pc = "documents"
  /\ \E o \in RetrieveOutcomes(rag.question, rag.top_k) :
       rag' = [rag EXCEPT
                 !.documents = o,
                 !.retrievals = @ + 1,
                 !.out = IF o.raised THEN "error" ELSE @,
                 !.pc = IF o.raised THEN "done" ELSE "generate"]
  /\ UNCHANGED <<index, ingestVars, runs, delResp, procVars, lockVars>>

(* response = self.generator.generate(...): the completion call answers,   *)
(* the sources are compiled and the result returned; or it raises, and     *)
(* the handler answers with an error.                                      *)
Generate ==
  /\ rag.pc = "generate"
  /\ \/ rag' = [rag EXCEPT
                  !.max_tokens = MaxTokens(rag.context),
                  !.sources = SourcesOf(rag.documents.docs),
                  !.num_sources = Len(SourcesOf(rag.documents.docs)),
                  !.out = "ok",
                  !.pc = "done"]
     \/ rag' = [rag EXCEPT
                  !.max_tokens = MaxTokens(rag.context),
                  !.out = "error",
                  !.pc = "done"]
  /\ UNCHANGED <<index, ingestVars, runs, delResp, procVars, lockVars>>

(* generate_streaming: chat.completions.create(stream=True) answers with   *)
(* a stream, or raises.                                                    *)
StreamOpen ==
  /\ rag.pc = "stream_open"
  /\ \/ rag' = [rag EXCEPT !.max_tokens = StreamBudget, !.pc = "streaming"]
     \/ rag' = [rag EXCEPT !.max_tokens = StreamBudget, !.out = "error", !.pc = "done"]
  /\ UNCHANGED <<index, ingestVars, runs, delResp, procVars, lockVars>>

(* for chunk in stream: if chunk.choices[0].delta.content: yield it        *)
StreamFragment ==
  /\ rag.pc = "streaming"
  /\ Len(rag.arrived) < MaxFragments
  /\ \E f \in Fragments(rag.arrived) :
       rag' = [rag EXCEPT
                 !.arrived = Append(@, f),
                 !.yielded = IF f # 0 THEN Yield(@, f) ELSE @]
  /\ UNCHANGED <<index, ingestVars, runs, delResp, procVars, lockVars>>

(* The completion service signals the end of the stream.                   *)
StreamEnd ==
  /\ rag.pc = "streaming"
  /\ rag' = [rag EXCEPT !.out = "ok", !.pc = "done"]
  /\ UNCHANGED <<index, ingestVars, runs, delResp, procVars, lockVars>>

(* The stream raises: logged and raised again.                             *)
StreamFail ==
  /\ rag.pc = "streaming"
  /\ rag' = [rag EXCEPT !.out = "error", !.pc = "done"]
  /\ UNCHANGED <<index, ingestVars, runs, delResp, procVars, lockVars>>

(* DELETE /documents/{doc_id}: vector_store is a LangChainVectorStore,     *)
(* which has no delete_documents; the AttributeError is caught by the      *)
(* handler's `except Exception` and answered as an error.                  *)
DeleteDocument ==
  /\ \E d \in DocIds : delResp' = [doc_id |-> d, status |-> "error"]
  /\ UNCHANGED <<index, ingestVars, rag, runs, procVars, lockVars>>

(* VectorStore.delete_documents(doc_id): client.delete with a filter on    *)
(* the top-level doc_id, or an exception of the client.                    *)
VectorStoreDelete ==
  /\ \E d \in DocIds :
       \/ /\ index' = {p \in index : ~(p.doc = d /\ p.shape = "flat")}
          /\ delResp' = [doc_id |-> d, status |-> "deleted"]
       \/ /\ index' = index
          /\ delResp' = [doc_id |-> d, status |-> "raised"]
  /\ UNCHANGED <<ingestVars, rag, runs, procVars, lockVars>>

RagStep ==
  \/ QueryAccept
  \/ StreamAccept
  \/ RetrieveContext
  \/ RetrieveDocuments
  \/ Generate
  \/ StreamOpen
  \/ StreamFragment
  \/ StreamEnd
  \/ StreamFail

DeleteStep ==
  \/ DeleteDocument
  \/ VectorStoreDelete

(* The collection when the service starts: documents indexed earlier, by  *)
(* the direct store (flat) or by add_documents (nested).                   *)
NestedPointsOf(d) == {Point(d, i, "nested", 0) : i \in 0..(NumChunks - 1)}

InitIndexed ==
  /\ InitApi
  /\ InitLocks
  /\ InitProc
  /\ \E L \in SUBSET LegacyDocs, N \in SUBSET DocIds :
       index = UNION {FlatPoints(d) : d \in L} \cup UNION {NestedPointsOf(d) : d \in N}
  /\ _doc_locks = {}
  /\ holder = [k \in DocIds |-> 0]
  /\ _locks_mutex = 0
  /\ loop = 0
  /\ pc = [c \in Calls |-> "idle"]
  /\ tpc = [c \in Calls |-> "none"]
  /\ kind = [c \in Calls |-> "none"]
  /\ content = [c \in Calls |-> 0]
  /\ ex = [c \in Calls |-> "none"]
  /\ rd = [c \in Calls |-> "none"]
  /\ fault = [c \in Calls |-> FALSE]
  /\ resp = [c \in Calls |-> "none"]
  /\ tasks = [c \in Calls |-> 0]
  /\ result = [c \in Calls |-> "none"]
  /\ n = [c \in Calls |-> 0]
  /\ respAtIssue = [c \in Calls |-> {}]
  /\ doneAtIssue = [c \in Calls |-> {}]

(* The query and streaming endpoints over a collection.                    *)
NextApi == RagStep

SpecApi == InitIndexed /\ [][NextApi]_vars

(* add_documents calls that run beside the deletes.                        *)
ApiAddCall(c) == c <= NumApiAdds /\ AddCall(c)

(* The delete endpoint and the direct store's delete over the store.       *)
NextDelete ==
  \/ \E c \in Calls : ApiAddCall(c) \/ AddStep(c)
  \/ DeleteStep

SpecDelete == Init /\ [][NextDelete]_vars

---------------------------------------------------------------------------
(* External calls that are not answered.  A RAGPipeline call waits for the *)
(* embedder (embed_query, inside Retriever.retrieve) or for the completion *)
(* service (generate, generate_streaming).                                 *)

GenerateTimeout == 20    \* generate: timeout=20.0

(* The timeout argument the code passes with an external call: <<>> when   *)
(* it passes none.                                                         *)
TimeoutOf(call) == IF call = "generate" THEN <<GenerateTimeout>> ELSE <<>>

(* The external call a RAGPipeline call makes at a position.               *)
CallAt(p) ==
  CASE p \in {"ctx", "documents"} -> "embed_query"
    [] p = "generate" -> "generate"
    [] p \in {"stream_open", "streaming"} -> "generate_streaming"

(* The service called at the current position does not answer.             *)
ExternalHang ==
  /\ rag.pc \in {"ctx", "documents", "generate", "stream_open", "streaming"}
  /\ rag' = [rag EXCEPT !.awaits = rag.pc, !.pc = "blocked"]
  /\ UNCHANGED <<index, ingestVars, runs, delResp, procVars, lockVars>>

(* The timeout passed with the call expires: the client raises, generate   *)
(* logs and raises again, and the handler answers with an error.           *)
ExternalTimeout ==
  /\ rag.pc = "blocked"
  /\ TimeoutOf(CallAt(rag.awaits)) # <<>>
  /\ rag' = [rag EXCEPT !.out = "error", !.pc = "done"]
  /\ UNCHANGED <<index, ingestVars, runs, delResp, procVars, lockVars>>

(* The client library gives the call up by itself (connection reset, a     *)
(* default of the library): nothing in the code makes this happen.  A      *)
(* failed embed_query makes search_with_scores return no result; a failed  *)
(* completion call is raised to the handler.                               *)
ExternalAbort ==
  /\ rag.pc = "blocked"
  /\ rag' =
       CASE rag.awaits = "ctx" ->
              [rag EXCEPT !.ctx = OnSearchError("embed"),
                          !.retrievals = @ + 1,
                          !.context = ContextOf(<<>>),
                          !.pc = IF rag.kind = "query" THEN "documents" ELSE "stream_open"]
         [] rag.awaits = "documents" ->
              [rag EXCEPT !.documents = OnSearchError("embed"),
                          !.retrievals = @ + 1,
                          !.pc = "generate"]
         [] OTHER -> [rag EXCEPT !.out = "error", !.pc = "done"]
  /\ UNCHANGED <<index, ingestVars, runs, delResp, procVars, lockVars>>

NextApiLive == RagStep \/ ExternalHang \/ ExternalTimeout \/ ExternalAbort

(* The timer of a call made with a timeout runs.                           *)
SpecApiLive == InitIndexed /\ [][NextApiLive]_vars /\ WF_vars(ExternalTimeout)

---------------------------------------------------------------------------
(* DocumentProcessor: the chunker _create_chunks and the doc_id that the   *)
(* processors attach to the chunks of a document.                          *)

MaxLen == 7          \* longest text given to the chunker
MaxChunkSize == 5    \* largest chunk_size (and chunk_overlap)
MaxIter == 7         \* windows after which a run of the loop is cut off
NumNames == 2        \* distinct filenames / paths
NumIngests == 2      \* ingestions of a run

(* Characters: a letter, a period, a newline (which is whitespace).        *)
Chars == {"a", ".", "n"}
Whitespace == {"n"}
Texts == UNION {[1..l -> Chars] : l \in 0..MaxLen}

SetMax(S) == CHOOSE x \in S : \A y \in S : y <= x
SetMin(S) == CHOOSE x \in S : \A y \in S : x <= y

(* Python's t[a:b]: negative indices count from the end, indices are       *)
(* clamped to the sequence.                                                *)
Clamp(i, l) ==
  IF i < 0 THEN (IF i + l < 0 THEN 0 ELSE i + l) ELSE (IF i > l THEN l ELSE i)
Slice(t, a, b) ==
  LET lo == Clamp(a, Len(t))
      hi == Clamp(b, Len(t))
  IN IF lo < hi THEN SubSeq(t, lo + 1, hi) ELSE <<>>

(* t.rfind(ch): the last index (from 0) of ch in t, -1 when there is none. *)
RFind(t, ch) ==
  LET S == {i \in 1..Len(t) : t[i] = ch}
  IN IF S = {} THEN -1 ELSE SetMax(S) - 1

(* t.strip()                                                               *)
Strip(t) ==
  LET S == {i \in 1..Len(t) : t[i] \notin Whitespace}
  IN IF S = {} THEN <<>> ELSE SubSeq(t, SetMin(S), SetMax(S))

(* One pass of the loop of _create_chunks from window start s: the window  *)
(* is cut after its last period or newline when that lies past the middle  *)
(* and the window does not reach the end of the text.                      *)
BoundaryPeriodOnly(chunk) == RFind(chunk, ".")
Boundary(chunk) ==
  LET last_period == RFind(chunk, ".")
      last_newline == RFind(chunk, "n")
  IN IF last_period >= last_newline THEN last_period ELSE last_newline

Window(s) ==
  LET end == s + chunk_size
      chunk == Slice(text, s, end)
      cut == end < Len(text) /\ Boundary(chunk) > chunk_size \div 2
  IN [start |-> s,
      end |-> IF cut THEN s + Boundary(chunk) + 1 ELSE end,
      chunk |-> Strip(IF cut THEN Slice(chunk, 0, Boundary(chunk) + 1) ELSE chunk)]

(* while start < text_length                                               *)
LoopGuard == start < Len(text)

(* return [chunk for chunk in chunks if chunk]                             *)
NotBlank(w) == w.chunk # <<>>
ReturnedChunks == SelectSeq(chunks, NotBlank)

(* A _create_chunks(text) call of a DocumentProcessor(chunk_size,          *)
(* chunk_overlap): the constructor stores its arguments as they are.       *)
InitCalls ==
  /\ _doc_locks = {}
  /\ holder = [k \in DocIds |-> 0]
  /\ _locks_mutex = 0
  /\ loop = 0
  /\ pc = [c \in Calls |-> "idle"]
  /\ tpc = [c \in Calls |-> "none"]
  /\ kind = [c \in Calls |-> "none"]
  /\ content = [c \in Calls |-> 0]
  /\ ex = [c \in Calls |-> "none"]
  /\ rd = [c \in Calls |-> "none"]
  /\ fault = [c \in Calls |-> FALSE]
  /\ resp = [c \in Calls |-> "none"]
  /\ tasks = [c \in Calls |-> 0]
  /\ result = [c \in Calls |-> "none"]
  /\ n = [c \in Calls |-> 0]
  /\ respAtIssue = [c \in Calls |-> {}]
  /\ doneAtIssue = [c \in Calls |-> {}]

InitChunk ==
  /\ InitApi
  /\ InitLocks
  /\ InitCalls
  /\ index = {}
  /\ ing = <<>>
  /\ text \in Texts
  /\ chunk_size \in 1..MaxChunkSize
  /\ chunk_overlap \in 0..MaxChunkSize
  /\ start = 0
  /\ chunks = <<>>
  /\ cpc = "loop"

(* chunks.append(chunk.strip()); start = end - self.chunk_overlap          *)
ChunkWindow ==
  /\ cpc = "loop"
  /\ LoopGuard
  /\ Len(chunks) < MaxIter
  /\ chunks' = Append(chunks, Window(start))
  /\ start' = Window(start).end - chunk_overlap
  /\ UNCHANGED <<index, ingestVars, apiVars, lockVars, text, chunk_size, chunk_overlap, cpc, ing>>

ChunkReturn ==
  /\ cpc = "loop"
  /\ ~LoopGuard
  /\ cpc' = "done"
  /\ UNCHANGED <<index, ingestVars, apiVars, lockVars, text, chunk_size, chunk_overlap, start,
                 chunks, ing>>

NextChunk == ChunkWindow \/ ChunkReturn

SpecChunk == InitChunk /\ [][NextChunk]_vars

(* The doc_id of an ingestion.  Names (filenames, paths) and contents are  *)
(* byte strings; str(file_path).encode() is the byte string of a path.     *)
Names == 1..NumNames
PathBytes(p) == NumDocs + p

Ingestion(e, p, b, d) == [entry |-> e, name |-> p, bytes |-> b, doc_id |-> d]

(* DocumentProcessor._generate_doc_id(file_path)                           *)
GenerateDocId(p) == Md5(PathBytes(p))

(* LangChainDocumentProcessor.process_upload(filename, file_content)       *)
LangChainProcessUpload ==
  /\ Len(ing) < NumIngests
  /\ \E p \in Names, b \in 1..NumDocs :
       ing' = Append(ing, Ingestion("langchain_processor.process_upload", p, b, Md5(b)))
  /\ UNCHANGED <<index, ingestVars, apiVars, lockVars, text, chunk_size, chunk_overlap, start,
                 chunks, cpc>>

(* DocumentProcessor.process_upload(filename, file_content)                *)
ProcessUpload ==
  /\ Len(ing) < NumIngests
  /\ \E p \in Names, b \in 1..NumDocs :
       ing' = Append(ing, Ingestion("document_processor.process_upload", p, b, Md5(b)))
  /\ UNCHANGED <<index, ingestVars, apiVars, lockVars, text, chunk_size, chunk_overlap, start,
                 chunks, cpc>>

(* DocumentProcessor.process_file(file_path), the file holding bytes b     *)
ProcessFile ==
  /\ Len(ing) < NumIngests
  /\ \E p \in Names, b \in 1..NumDocs :
       ing' = Append(ing, Ingestion("document_processor.process_file", p, b, GenerateDocId(p)))
  /\ UNCHANGED <<index, ingestVars, apiVars, lockVars, text, chunk_size, chunk_overlap, start,
                 chunks, cpc>>

NextIngest == LangChainProcessUpload \/ ProcessUpload \/ ProcessFile

InitIngest ==
  /\ InitApi
  /\ InitLocks
  /\ InitProc
  /\ InitCalls
  /\ index = {}

SpecIngest == InitIngest /\ [][NextIngest]_vars

---------------------------------------------------------------------------
(* _get_doc_lock(doc_id), statement by statement, with the identity of     *)
(* the lock objects.  _doc_locks and _locks_mutex are attributes of the    *)
(* class and the method is a classmethod: the store instance through which *)
(* a thread calls it does not appear.  A lock object is named by the       *)
(* number of its creation.                                                 *)

(* with cls._locks_mutex: a thread enters when no thread is inside.        *)
MutexIgnored == TRUE
MutexFree == _locks_mutex = 0

(* doc_id not in cls._doc_locks                                            *)
Absent(d) == lock_of[d] = 0

(* A thread calls _get_doc_lock(d).                                        *)
LockCall(t) ==
  /\ th[t].pc = "idle"
  /\ \A x \in Threads : x < t => th[x].pc # "idle"
  /\ \E d \in DocIds :
       th' = [th EXCEPT ![t] = [pc |-> "wait", doc_id |-> d, absent |-> Absent(d), ret |-> 0]]
  /\ UNCHANGED <<index, ingestVars, apiVars, procVars, lock_of, made, handed>>

(* with cls._locks_mutex:                                                  *)
LockEnter(t) ==
  /\ th[t].pc = "wait"
  /\ MutexFree
  /\ _locks_mutex' = t
  /\ th' = [th EXCEPT ![t].pc = "test"]
  /\ UNCHANGED <<index, _doc_locks, holder, loop, pc, tpc, kind, content, ex, rd, fault,
                 resp, tasks, result, n, histVars, apiVars, procVars, lock_of, made, handed>>

(* if doc_id not in cls._doc_locks:                                        *)
LockTest(t) ==
  /\ th[t].pc = "test"
  /\ th' = [th EXCEPT ![t].pc = IF Absent(th[t].doc_id) THEN "create" ELSE "return"]
  /\ UNCHANGED <<index, ingestVars, apiVars, procVars, lock_of, made, handed>>

(* cls._doc_locks[doc_id] = threading.Lock()                               *)
LockCreate(t) ==
  /\ th[t].pc = "create"
  /\ made' = made + 1
  /\ lock_of' = [lock_of EXCEPT ![th[t].doc_id] = made + 1]
  /\ _doc_locks' = _doc_locks \cup {th[t].doc_id}
  /\ th' = [th EXCEPT ![t].pc = "return"]
  /\ UNCHANGED <<index, holder, _locks_mutex, loop, pc, tpc, kind, content, ex, rd, fault,
                 resp, tasks, result, n, histVars, apiVars, procVars, handed>>

(* return cls._doc_locks[doc_id], which leaves the `with` block.           *)
LockReturn(t) ==
  /\ th[t].pc = "return"
  /\ th' = [th EXCEPT ![t].pc = "done", ![t].ret = lock_of[th[t].doc_id]]
  /\ handed' = handed \cup {<<th[t].doc_id, lock_of[th[t].doc_id]>>}
  /\ _locks_mutex' = IF _locks_mutex = t THEN 0 ELSE _locks_mutex
  /\ UNCHANGED <<index, _doc_locks, holder, loop, pc, tpc, kind, content, ex, rd, fault,
                 resp, tasks, result, n, histVars, apiVars, procVars, lock_of, made>>

NextLocks ==
  \E t \in Threads :
    LockCall(t) \/ LockEnter(t) \/ LockTest(t) \/ LockCreate(t) \/ LockReturn(t)

InitLockTable ==
  /\ InitApi
  /\ InitLocks
  /\ InitProc
  /\ InitCalls
  /\ index = {}

SpecLocks == InitLockTable /\ [][NextLocks]_vars

---------------------------------------------------------------------------
(* VectorStore (src/ingestion/vector_store.py), the direct Qdrant store:   *)
(* add_documents and _check_document_exists.  It takes no lock.  Its       *)
(* points are flat: payload {text, **metadata}, doc_id at the top level.   *)

(* A call vector_store.add_documents(documents), the documents being the   *)
(* chunks of content b.                                                    *)
VsAddCall(c) ==
  /\ Issuable(c)
  /\ \E b \in Contents :
       /\ Fresh(b)
       /\ content' = [content EXCEPT ![c] = b]
       /\ respAtIssue' = [respAtIssue EXCEPT ![c] = Answered(b)]
       /\ doneAtIssue' = [doneAtIssue EXCEPT ![c] = Returned(b)]
  /\ kind' = [kind EXCEPT ![c] = "vs_add"]
  /\ pc' = [pc EXCEPT ![c] = "direct"]
  /\ tpc' = [tpc EXCEPT ![c] = "vs_entry"]
  /\ UNCHANGED <<storeVars, loop, ex, rd, fault, resp, tasks, result, n>>
  /\ UNCHANGED <<apiVars, procVars, lockVars>>

(* if not documents: return                                                *)
VsAddEmpty(c) ==
  /\ tpc[c] = "vs_entry"
  /\ doc(c) = NoDoc
  /\ result' = [result EXCEPT ![c] = "none_added"]
  /\ tpc' = [tpc EXCEPT ![c] = "done"]
  /\ UNCHANGED <<storeVars, loop, pc, kind, content, ex, rd, fault, resp, tasks, n, histVars>>
  /\ UNCHANGED <<apiVars, procVars, lockVars>>

(* _check_document_exists(doc_id): one scroll on the top-level doc_id;     *)
(* when it raises the answer is False.                                     *)
VsCheckDocumentExists(c) ==
  /\ tpc[c] = "vs_entry"
  /\ doc(c) # NoDoc
  /\ \/ /\ ex' = [ex EXCEPT ![c] = Bool(Scroll("doc_id", doc(c)))]
        /\ fault' = fault
     \/ /\ ex' = [ex EXCEPT ![c] = "false"]
        /\ fault' = [fault EXCEPT ![c] = TRUE]
  /\ tpc' = [tpc EXCEPT ![c] = "vs_checked"]
  /\ UNCHANGED <<storeVars, loop, pc, kind, content, rd, resp, tasks, result, n, histVars>>
  /\ UNCHANGED <<apiVars, procVars, lockVars>>

(* if doc_id and self._check_document_exists(doc_id): ... return           *)
VsSkip(c) ==
  /\ tpc[c] = "vs_checked"
  /\ ex[c] = "true"
  /\ result' = [result EXCEPT ![c] = "skipped"]
  /\ tpc' = [tpc EXCEPT ![c] = "done"]
  /\ UNCHANGED <<storeVars, loop, pc, kind, content, ex, rd, fault, resp, tasks, n, histVars>>
  /\ UNCHANGED <<apiVars, procVars, lockVars>>

(* The embeddings are generated, one point per chunk is built under a      *)
(* fresh uuid and all points are upserted in one call.                     *)
VsPoints(c) == {Point(doc(c), i, "flat", c) : i \in 0..(ChunksOf(content[c]) - 1)}

VsUpsert(c) ==
  /\ tpc[c] = "vs_checked"
  /\ ex[c] = "false"
  /\ index' = index \cup VsPoints(c)
  /\ n' = [n EXCEPT ![c] = ChunksOf(content[c])]
  /\ result' = [result EXCEPT ![c] = "added"]
  /\ tpc' = [tpc EXCEPT ![c] = "done"]
  /\ UNCHANGED <<_doc_locks, holder, _locks_mutex, loop, pc, kind, content, ex, rd, fault,
                 resp, tasks, histVars>>
  /\ UNCHANGED <<apiVars, procVars, lockVars>>

(* An embedding call or the upsert raises; add_documents catches nothing.  *)
VsFail(c) ==
  /\ tpc[c] = "vs_checked"
  /\ ex[c] = "false"
  /\ fault' = [fault EXCEPT ![c] = TRUE]
  /\ result' = [result EXCEPT ![c] = "raised"]
  /\ tpc' = [tpc EXCEPT ![c] = "done"]
  /\ UNCHANGED <<storeVars, loop, pc, kind, content, ex, rd, resp, tasks, n, histVars>>
  /\ UNCHANGED <<apiVars, procVars, lockVars>>

VsStep(c) ==
  \/ VsAddCall(c)
  \/ VsAddEmpty(c)
  \/ VsCheckDocumentExists(c)
  \/ VsSkip(c)
  \/ VsUpsert(c)
  \/ VsFail(c)

NextVectorStore == \E c \in Calls : VsStep(c)

SpecVectorStore == Init /\ [][NextVectorStore]_vars

---------------------------------------------------------------------------
(* Queries while add_documents calls run.                                  *)
NextQueryAdd ==
  \/ QueryAccept
  \/ RetrieveContext
  \/ RetrieveDocuments
  \/ Generate
  \/ \E c \in Calls : ApiAddCall(c) \/ AddStep(c)

SpecQueryAdd == Init /\ [][NextQueryAdd]_vars

---------------------------------------------------------------------------
(* The store under direct add_documents calls whose threads keep running   *)
(* and whose external calls return (with a result or an exception).        *)
FairAddCall(c) == c < NumCalls /\ AddCall(c)

NextFair == \E c \in Calls : FairAddCall(c) \/ AddStep(c)

SpecFair == Init /\ [][NextFair]_vars /\ \A c \in Calls : WF_vars(AddStep(c))

---------------------------------------------------------------------------
(* Vocabulary of the properties.                                           *)

Adds(d) == {c \in Calls : tpc[c] # "none" /\ doc(c) = d}
Uploads(b) == {c \in Calls : kind[c] = "upload" /\ content[c] = b}
NestedPoints(d) == {p \in index : p.doc = d /\ p.shape = "nested"}
HasFlat(d) == \E p \in index : p.doc = d /\ p.shape = "flat"
PointsBy(c) == {p \in index : p.by = c}
ChunkIdx == 0..(NumChunks - 1)

(* The nested points of d are one per chunk, all written by call w.        *)
InsertedOnceBy(d, w) ==
  /\ \A i \in ChunkIdx : Cardinality({p \in NestedPoints(d) : p.idx = i}) = 1
  /\ \A p \in NestedPoints(d) : p.by = w

(* add_texts raised inside the add of call c.                              *)
WriteFailed(c) ==
  tpc[c] = "done" /\ doc(c) # NoDoc /\ ex[c] = "false" /\ result[c] # "true"

Answer == {"processing", "duplicate"}

---------------------------------------------------------------------------
(* C1.  N >= 2 add calls for the same doc_id, against an index that does   *)
(* not hold the doc_id, their index reads and add_texts calls succeeding:  *)
(* once all have returned, exactly one has inserted and returned true,     *)
(* the others have returned false as duplicate skips, and the index holds  *)
(* exactly one point per chunk of the document.  Holds under every         *)
(* interleaving of the calls.                                              *)
C1_ConcurrentAddsInsertOnce ==
  \A d \in DocIds :
    ( /\ Cardinality(Adds(d)) >= 2
      /\ ~HasFlat(d)
      /\ \A c \in Adds(d) : tpc[c] = "done" /\ ~fault[c] )
    => \E w \in Adds(d) :
         /\ result[w] = "true"
         /\ \A c \in Adds(d) \ {w} : result[c] = "false" /\ ex[c] = "true"
         /\ InsertedOnceBy(d, w)

(* Three adds of one document, each called before any of them returned,    *)
(* have all returned: one true, two skips.                                 *)
C1_Witness ==
  \E d \in DocIds :
    /\ Cardinality(Adds(d)) >= 3
    /\ ~HasFlat(d)
    /\ \A c \in Adds(d) : tpc[c] = "done" /\ ~fault[c] /\ doneAtIssue[c] = {}
    /\ Cardinality({c \in Adds(d) : result[c] = "true"}) = 1
    /\ Cardinality({c \in Adds(d) : result[c] = "false"}) >= 2

(* C2.  Whatever the outcomes of the index reads and writes: at most one   *)
(* add call per doc_id has completed a successful insert, and no two       *)
(* points written by add calls share doc_id and chunk_index.               *)
C2_AtMostOneInsert ==
  \A d \in DocIds :
    /\ Cardinality({c \in Adds(d) : result[c] = "true"}) <= 1
    /\ \A p, q \in NestedPoints(d) : p.idx = q.idx => p = q

(* C3.  An add inside its critical section never keeps an add for another  *)
(* doc_id out of its own: a call waiting for its document's lock can take  *)
(* it whenever no call for the same doc_id is inside the lock, a call that *)
(* needs the table mutex can take it whenever no call is inside            *)
(* _get_doc_lock, the mutex is held only inside _get_doc_lock, and a call  *)
(* inside its critical section can always take its next step.              *)
C3_DifferentDocsDoNotBlock ==
  /\ (_locks_mutex # 0 => tpc[_locks_mutex] = "in_mutex")
  /\ \A c \in Calls :
       /\ ( /\ tpc[c] = "acquire"
            /\ ~\E x \in Calls \ {c} : tpc[x] \in InLock /\ doc(x) = doc(c) )
          => ENABLED AcquireDocLock(c)
       /\ ( /\ tpc[c] = "add_entry" /\ doc(c) # NoDoc
            /\ ~\E x \in Calls : tpc[x] = "in_mutex" )
          => ENABLED GetDocLockEnter(c)
       /\ tpc[c] \in InLock => ENABLED AddStep(c)

(* Two adds for different doc_ids are inside their critical sections at    *)
(* the same time, one of them in the middle of its inserts.                *)
C3_Witness ==
  \E c1, c2 \in Calls :
    /\ doc(c1) # doc(c2)
    /\ tpc[c1] = "adding"
    /\ tpc[c2] \in InLock
    /\ holder[LockKey(doc(c1))] = c1
    /\ holder[LockKey(doc(c2))] = c2

(* C4.  Two add calls with the chunks of one doc_id, the second called     *)
(* after the first returned, no other add of that doc_id, index reads and  *)
(* add_texts succeeding: the first returns true, the second false, and     *)
(* the second leaves the index as the first left it (the document's points *)
(* are those the first call wrote, one per chunk).                         *)
C4_SecondAddSkips ==
  \A c1, c2 \in Calls :
    ( /\ c1 # c2
      /\ doc(c1) # NoDoc
      /\ Adds(doc(c1)) = {c1, c2}
      /\ c1 \in doneAtIssue[c2]
      /\ tpc[c2] = "done"
      /\ ~fault[c1] /\ ~fault[c2] )
    => /\ result[c1] = "true"
       /\ result[c2] = "false"
       /\ PointsBy(c2) = {}
       /\ InsertedOnceBy(doc(c1), c1)

C4_Witness ==
  \E c1, c2 \in Calls :
    /\ c1 # c2
    /\ doc(c1) # NoDoc
    /\ Adds(doc(c1)) = {c1, c2}
    /\ c1 \in doneAtIssue[c2]
    /\ tpc[c2] = "done"
    /\ ~fault[c1] /\ ~fault[c2]
    /\ result[c1] = "true" /\ result[c2] = "false"
    /\ Cardinality(NestedPoints(doc(c1))) = NumChunks

---------------------------------------------------------------------------
(* Two uploads u1, u2 of one content that yields chunks and that the index *)
(* does not hold, no other upload of that content, both answered, every    *)
(* index read and add_texts call of theirs succeeding.                     *)
TwoUploads(u1, u2) ==
  /\ u1 # u2
  /\ doc(u1) # NoDoc
  /\ Uploads(content[u1]) = {u1, u2}
  /\ ~HasFlat(doc(u1))
  /\ resp[u1] \in Answer /\ resp[u2] \in Answer
  /\ ~fault[u1] /\ ~fault[u2]

(* Once both scheduled inserts have run, the index holds one set of points *)
(* for the content.                                                        *)
OneSetOfPoints(u1, u2) ==
  (tpc[u1] = "done" /\ tpc[u2] = "done")
    => \E w \in {u1, u2} : InsertedOnceBy(doc(u1), w)

(* C5, as stated.  The second upload being issued after the response to    *)
(* the first was returned: the first reports "processing", the second      *)
(* "duplicate", and after both scheduled inserts one set of points exists. *)
C5_SecondUploadAfterResponse ==
  \A u1, u2 \in Calls :
    (TwoUploads(u1, u2) /\ u1 \in respAtIssue[u2])
    => /\ resp[u1] = "processing"
       /\ resp[u2] = "duplicate"
       /\ OneSetOfPoints(u1, u2)

(* C5, amended.  The second upload being issued after the insert scheduled *)
(* by the first has returned: the first reports "processing", the second   *)
(* "duplicate", and after both scheduled inserts one set of points exists. *)
C5_SecondUploadAfterInsert ==
  \A u1, u2 \in Calls :
    (TwoUploads(u1, u2) /\ u1 \in doneAtIssue[u2])
    => /\ resp[u1] = "processing"
       /\ resp[u2] = "duplicate"
       /\ OneSetOfPoints(u1, u2)

C5_Witness ==
  \E u1, u2 \in Calls :
    /\ TwoUploads(u1, u2)
    /\ u1 \in doneAtIssue[u2]
    /\ resp[u1] = "processing" /\ resp[u2] = "duplicate"
    /\ tpc[u2] = "done" /\ result[u2] = "false"
    /\ InsertedOnceBy(doc(u1), u1)

(* C6.  Every answered upload has scheduled exactly one background add,    *)
(* whatever its duplicate check found; and an add that runs, its index     *)
(* reads succeeding, while the index already holds the document (points    *)
(* present from the start, or written by an add that had returned when the *)
(* upload was issued) returns false and writes nothing.                    *)
HeldBefore(c) ==
  \E p \in index : p.doc = doc(c) /\ (p.by = 0 \/ p.by \in doneAtIssue[c])

C6_ScheduledAddSkipsKnownDocument ==
  \A c \in Calls :
    /\ (kind[c] = "upload" /\ resp[c] \in Answer) => tasks[c] = 1
    /\ ( /\ kind[c] = "upload" /\ tpc[c] = "done" /\ doc(c) # NoDoc
         /\ ~fault[c] /\ HeldBefore(c) )
       => (result[c] = "false" /\ PointsBy(c) = {})

(* C7.  The background add of an upload starts only after the response was *)
(* produced, and no step taken afterwards (insert, skip, failure of        *)
(* embedding or upsert) changes the response.                              *)
C7_ResponseBeforeAdd ==
  [][ \A c \in Calls :
        /\ (kind[c] = "upload" /\ tpc[c] = "none" /\ tpc'[c] # "none")
             => resp[c] \in Answer
        /\ resp[c] # "none" => resp'[c] = resp[c] ]_vars

(* An upload answered "processing" whose background add then failed in     *)
(* add_texts.                                                              *)
C7_Witness ==
  \E c \in Calls :
    /\ kind[c] = "upload"
    /\ resp[c] = "processing"
    /\ WriteFailed(c) /\ fault[c]

(* C8.  A document lock is held only by a call that is inside its          *)
(* `with doc_lock:` block for that document: no call that has returned     *)
(* (by skip, insert or failure) holds a lock.                              *)
C8_NoLockHeldAfterReturn ==
  \A k \in DocIds :
    holder[k] # 0 => (tpc[holder[k]] \in InLock /\ LockKey(doc(holder[k])) = k)

(* An add has returned after add_texts raised, with points of an earlier   *)
(* batch left in the index, and the lock of its document is free.          *)
C8_Witness ==
  \E c \in Calls :
    /\ WriteFailed(c) /\ fault[c]
    /\ PointsBy(c) # {}
    /\ holder[LockKey(doc(c))] = 0

(* C9.  When embedding or upsert fails inside add, the call ends with an   *)
(* error raised to the caller, not with the result false.                  *)
C9_WriteFailurePropagates ==
  \A c \in Calls : WriteFailed(c) => result[c] = "raised"

(* C10.  check_document_exists never raises, returns false when its index  *)
(* reads fail, and changes neither the index nor the lock table (nor the   *)
(* locks).                                                                 *)
ExistsStep(c) ==
  \/ pc[c] \in {"up_check1", "up_check2"} /\ pc'[c] # pc[c]
  \/ tpc[c] \in {"add_check1", "add_check2"} /\ tpc'[c] # tpc[c]

C10_ExistsNeverRaises ==
  [][ \A c \in Calls :
        ExistsStep(c) =>
          /\ UNCHANGED storeVars
          /\ ex'[c] \in {"none", "true", "false"}
          /\ (ex'[c] = "none") = (rd'[c] = "fail")
          /\ rd'[c] = "fail_fail" => ex'[c] = "false" ]_vars

(* Both lookups of a check made by an upload handler have failed and the   *)
(* check has answered false.                                               *)
C10_Witness ==
  \E c \in Calls :
    pc[c] = "up_checked" /\ rd[c] = "fail_fail" /\ ex[c] = "false"

---------------------------------------------------------------------------
(* C11.  When the index reads of a check_document_exists succeed, its      *)
(* answer is true exactly when the index holds a point of the doc_id, in   *)
(* the nested or in the flat shape.                                        *)
HoldsDoc(d) == \E p \in index : p.doc = d

C11_ExistsFindsBothShapes ==
  [][ \A c \in Calls :
        (ExistsStep(c) /\ rd'[c] = "ok")
          => ex'[c] = Bool(HoldsDoc(doc(c))) ]_vars

---------------------------------------------------------------------------
(* The retrievals a RAGPipeline call has made so far.                      *)
Retrievals == {o \in {rag.ctx, rag.documents} : o.fault # "unset"}

(* C12.  search_with_scores, reached through Retriever.retrieve, never     *)
(* raises: when the query embedding or the index search fails it returns   *)
(* the empty sequence, and on an empty index it returns the empty          *)
(* sequence.                                                               *)
C12_SearchNeverRaises ==
  \A o \in Retrievals :
    /\ ~o.raised
    /\ o.fault \in {"embed", "search"} => o.docs = <<>>
    /\ index = {} => o.docs = <<>>

(* A query over a non-empty index whose first retrieval failed in the      *)
(* embedding and whose second failed in the search; both returned the      *)
(* empty sequence.                                                         *)
C12_Witness ==
  /\ index # {}
  /\ rag.ctx.fault = "embed" /\ rag.ctx.docs = <<>>
  /\ rag.documents.fault = "search" /\ rag.documents.docs = <<>>
  /\ ~rag.ctx.raised /\ ~rag.documents.raised

(* C13.  When the context retrieval of RAGPipeline.query returns nothing,  *)
(* the context is the no-documents sentinel and the completion call gets   *)
(* a budget strictly smaller than the budget of every completion call      *)
(* made after a retrieval that returned at least one result.               *)
SentinelBudget == MaxTokens(ContextOf(<<>>))

C13_SmallerBudgetWithoutResults ==
  (rag.kind = "query" /\ rag.max_tokens # 0) =>
     IF rag.ctx.docs = <<>>
       THEN rag.context.kind = "sentinel" /\ rag.max_tokens = SentinelBudget
       ELSE rag.max_tokens > SentinelBudget

(* C14.  The sources returned by RAGPipeline.query have one entry          *)
(* {filename, source, chunk_index, relevance_score} per result of the      *)
(* source retrieval (the second retrieval of the call), in the order of    *)
(* that retrieval, and num_sources is the length of sources.               *)
C14_SourcesFollowRetrieval ==
  (rag.kind = "query" /\ rag.out = "ok") =>
     LET docs == rag.documents.docs IN
     /\ Len(rag.sources) = Len(docs)
     /\ \A i \in 1..Len(docs) :
          /\ DOMAIN rag.sources[i] = {"filename", "source", "chunk_index", "relevance_score"}
          /\ rag.sources[i].filename = docs[i].metadata.filename
          /\ rag.sources[i].source = docs[i].metadata.source
          /\ rag.sources[i].chunk_index = docs[i].metadata.chunk_index
          /\ rag.sources[i].relevance_score = docs[i].score
     /\ rag.num_sources = Len(rag.sources)

(* A query has returned two sources of different chunks; its context       *)
(* retrieval had failed, so the sources are those of the second retrieval. *)
C14_Witness ==
  /\ rag.kind = "query" /\ rag.out = "ok"
  /\ rag.ctx.docs = <<>>
  /\ Len(rag.sources) = 2
  /\ rag.sources[1] # rag.sources[2]
  /\ rag.num_sources = 2

(* C15.  query_streaming retrieves once per call, before the completion    *)
(* stream is opened; it yields the text fragments of the stream in the     *)
(* order of their arrival; once the stream has ended nothing more is       *)
(* yielded; and a fresh call starts with no retrieval made and retrieves   *)
(* again.                                                                  *)
HasContent(f) == f # 0

C15_StreamingYieldsInOrder ==
  [][ /\ rag'.kind = "stream" =>
           /\ rag'.retrievals = (IF rag'.pc = "ctx" THEN 0 ELSE 1)
           /\ rag'.yielded = SelectSeq(rag'.arrived, HasContent)
      /\ (rag.kind = "stream" /\ rag.pc = "done" /\ runs' = runs) => rag' = rag
      /\ (rag.kind = "stream" /\ runs' # runs) => rag'.retrievals = 0 ]_vars

(* The second call of the service is a streaming query that has retrieved  *)
(* once and has yielded two fragments, in their order, of three arrived    *)
(* or two; the stream has ended.                                           *)
C15_Witness ==
  /\ runs = 2
  /\ rag.kind = "stream" /\ rag.pc = "done" /\ rag.out = "ok"
  /\ rag.retrievals = 1
  /\ Len(rag.yielded) = 2
  /\ rag.yielded[1] < rag.yielded[2]


(* C16: the doc_id attached to a document's chunks depends only on the     *)
(* document's bytes: every ingestion computes it from the bytes, and two   *)
(* ingestions of identical bytes carry the same doc_id whatever their      *)
(* filename or path.                                                       *)
C16_DocIdFromBytesOnly ==
  /\ \A i \in 1..Len(ing) : ing[i].doc_id = Md5(ing[i].bytes)
  /\ \A i, j \in 1..Len(ing) :
       ing[i].bytes = ing[j].bytes => ing[i].doc_id = ing[j].doc_id


(* Valid chunker parameters: chunk_size > 0 and 0 <= overlap < chunk_size. *)
ValidParams == chunk_size > 0 /\ 0 <= chunk_overlap /\ chunk_overlap < chunk_size

(* C17: for a non-blank text shorter than chunk_size and an overlap with   *)
(* 0 <= overlap < chunk_size, _create_chunks returns exactly one chunk.    *)
C17_ShortTextOneChunk ==
  (cpc = "done" /\ ValidParams /\ Strip(text) # <<>> /\ Len(text) < chunk_size)
    => Len(ReturnedChunks) = 1

(* C18: when overlap >= chunk_size the chunker, given a text to split,     *)
(* fails with an error before it emits a chunk; it takes no step of its    *)
(* loop.                                                                   *)
C18_FailFastOnBadOverlap ==
  [][ (chunk_overlap >= chunk_size /\ text # <<>> /\ cpc = "loop")
        => (cpc' = "error" /\ chunks' = <<>>) ]_vars

(* The spans of the windows appended so far cover every position of text.  *)
Covered ==
  \A pos \in 1..Len(text) :
    \E i \in 1..Len(chunks) : chunks[i].start < pos /\ pos <= chunks[i].end

(* No further span will be emitted: the chunker has returned, or the next  *)
(* window starts where an earlier one did and the loop repeats itself.     *)
SpansFinal ==
  \/ cpc = "done"
  \/ cpc = "loop" /\ LoopGuard /\ \E i \in 1..Len(chunks) : chunks[i].start = start

(* C19: for valid parameters the raw spans of the emitted windows cover    *)
(* every position of the text, each span is at most chunk_size long, and   *)
(* consecutive spans overlap by at most overlap characters.                *)
C19_SpansCoverText ==
  ValidParams =>
    /\ SpansFinal => Covered
    /\ \A i \in 1..Len(chunks) : chunks[i].end - chunks[i].start <= chunk_size
    /\ \A i \in 1..(Len(chunks) - 1) :
         chunks[i].end - chunks[i + 1].start <= chunk_overlap

---------------------------------------------------------------------------
(* C20.  A delete of doc_id that the index client does not fail answers    *)
(* without an error, removes every point of that doc_id and leaves every   *)
(* other point (also when the doc_id has no point: nothing changes and     *)
(* the request does not fail); afterwards no point of the doc_id is left,  *)
(* so that exists is false and a later add inserts again.                  *)
C20_DeleteRemovesDocument ==
  [][ (delResp' # delResp /\ delResp'.status # "raised") =>
        /\ delResp'.status = "deleted"
        /\ index' = {p \in index : p.doc # delResp'.doc_id}
        /\ ~\E p \in index' : p.doc = delResp'.doc_id ]_vars


---------------------------------------------------------------------------
(* C21.  A query or streaming query whose top_k is non-positive is         *)
(* rejected with an error before any retrieval (and so any embedding) or   *)
(* completion call is made.                                                *)
NonPositiveTopK == rag.top_k # <<>> /\ rag.top_k[1] <= 0

C21_NonPositiveTopKRejected ==
  (rag.kind \in {"query", "stream"} /\ NonPositiveTopK) =>
     /\ rag.retrievals = 0
     /\ rag.max_tokens = 0
     /\ rag.pc = "done" => rag.out = "error"


---------------------------------------------------------------------------
(* C22.  Every call to the embedder and to the completion service is       *)
(* bounded by a timeout: when the service never answers, the call          *)
(* eventually fails and the worker waiting for it goes on.                 *)
C22_ExternalCallsTimeOut ==
  (rag.pc = "blocked") ~> (rag.pc # "blocked")


---------------------------------------------------------------------------
(* C23.  The lock table only grows: an entry is never removed or replaced, *)
(* and every _get_doc_lock call for a doc_id returns the lock object the   *)
(* table holds for it, the same for all calls of all threads, also when    *)
(* several threads ask for a doc_id the table does not hold yet.           *)
C23_LockTableOnlyGrows ==
  [][ /\ _doc_locks \subseteq _doc_locks'
      /\ \A d \in DocIds : lock_of[d] # 0 => lock_of'[d] = lock_of[d]
      /\ \A p \in handed' : lock_of'[p[1]] = p[2]
      /\ \A p, q \in handed' : p[1] = q[1] => p[2] = q[2] ]_vars

(* Three threads asked for the same doc_id while the table did not hold    *)
(* it; all have returned, with the one lock object created for it.         *)
C23_Witness ==
  \E d \in DocIds :
    /\ \A t \in Threads :
         th[t].pc = "done" /\ th[t].doc_id = d /\ th[t].absent /\ th[t].ret = lock_of[d]
    /\ Cardinality(Threads) >= 3
    /\ lock_of[d] # 0
    /\ made = 1


---------------------------------------------------------------------------
(* C24.  For valid parameters every iteration of the chunker moves the     *)
(* window start strictly forward, also when the chunk was cut at a         *)
(* sentence boundary (so the loop ends).                                   *)
C24_WindowAdvances ==
  [][ (ValidParams /\ chunks' # chunks) => start' > start ]_vars


---------------------------------------------------------------------------
(* C25.  A window that ends before the end of the text is cut after the    *)
(* last period or newline it contains when that character lies past the    *)
(* middle of the window, and is left at its raw edge otherwise; a window   *)
(* that reaches the end of the text is never cut.  The emitted chunk is    *)
(* the text of the span, stripped.                                         *)
RawEnd(w) == w.start + chunk_size
Boundaries(w) ==
  {i \in (w.start + 1)..Min(RawEnd(w), Len(text)) : text[i] \in {".", "n"}}
CutExpected(w) ==
  /\ RawEnd(w) < Len(text)
  /\ Boundaries(w) # {}
  /\ SetMax(Boundaries(w)) - (w.start + 1) > chunk_size \div 2
ExpectedEnd(w) == IF CutExpected(w) THEN SetMax(Boundaries(w)) ELSE RawEnd(w)

C25_CutAtLastBoundaryPastMiddle ==
  \A i \in 1..Len(chunks) :
    LET w == chunks[i] IN
    w.start >= 0 =>
      /\ w.end = ExpectedEnd(w)
      /\ w.chunk = Strip(SubSeq(text, w.start + 1, Min(w.end, Len(text))))

(* A run with valid parameters has returned after a window that was cut    *)
(* before its raw edge, at a newline, and a window reaching the end of the *)
(* text that was left whole although a period lies past its middle and     *)
(* before the end of the text.                                             *)
C25_Witness ==
  /\ cpc = "done" /\ ValidParams
  /\ \E i, l \in 1..Len(chunks) :
       /\ chunks[i].end < RawEnd(chunks[i]) /\ text[chunks[i].end] = "n"
       /\ RawEnd(chunks[l]) >= Len(text) /\ chunks[l].end = RawEnd(chunks[l])
       /\ \E b \in Boundaries(chunks[l]) :
            b - (chunks[l].start + 1) > chunk_size \div 2 /\ b < Len(text)


---------------------------------------------------------------------------
(* C26.  The completion call of a query gets the reduced budget exactly    *)
(* when the context is the no-relevant-documents sentinel: a context built *)
(* from retrieved results gets the full budget, whatever their text.       *)
C26_ReducedBudgetOnlyForSentinel ==
  (rag.kind = "query" /\ rag.max_tokens # 0) =>
     rag.max_tokens =
       (IF rag.context.kind = "sentinel" THEN ReducedBudget ELSE FullBudget)


---------------------------------------------------------------------------
(* C27.  VectorStore.add_documents deduplicates: after any sequence or     *)
(* interleaving of its calls with the chunks of one doc_id, its index      *)
(* reads and writes succeeding, the index holds each chunk of the document *)
(* once, every call after the first insert having been skipped.            *)
C27_DirectStoreInsertsOnce ==
  \A d \in DocIds :
    (\A c \in Adds(d) : kind[c] = "vs_add" /\ ~fault[c]) =>
       /\ \A i \in ChunkIdx : Cardinality({p \in index : p.doc = d /\ p.idx = i}) <= 1
       /\ Cardinality({c \in Adds(d) : result[c] = "added"}) <= 1


---------------------------------------------------------------------------
(* C28.  After an add for a doc_id has failed in add_texts, a later add of *)
(* the same chunks whose external calls all succeed completes the insert:  *)
(* when it has returned, the index holds every chunk of the document.      *)
HoldsEveryChunk(d) == \A i \in ChunkIdx : \E p \in index : p.doc = d /\ p.idx = i

C28_RetryAfterFailedAddCompletes ==
  \A c1, c2 \in Calls :
    ( /\ WriteFailed(c1)
      /\ doc(c2) = doc(c1)
      /\ c1 \in doneAtIssue[c2]
      /\ tpc[c2] = "done" /\ ~fault[c2] )
    => HoldsEveryChunk(doc(c1))


---------------------------------------------------------------------------
(* C29.  The sources RAGPipeline.query reports with an answer describe     *)
(* exactly the retrieved results whose text was placed in the context      *)
(* given to the completion service, also when add calls complete while     *)
(* the query runs (both retrievals of the query succeeding).               *)
C29_SourcesMatchContext ==
  ( /\ rag.kind = "query" /\ rag.out = "ok"
    /\ rag.ctx.fault = "none" /\ rag.documents.fault = "none" )
  => /\ Len(rag.sources) = Len(rag.context.blocks)
     /\ rag.sources = SourcesOf(rag.ctx.docs)


---------------------------------------------------------------------------
(* C30.  The locking of add_documents cannot deadlock: the table mutex is  *)
(* held only inside _get_doc_lock, by a call that holds no document lock,  *)
(* and every add call that has started eventually returns, under every     *)
(* interleaving of adds for equal or different doc_ids.                    *)
MutexOutsideDocLocks ==
  /\ _locks_mutex # 0 => tpc[_locks_mutex] = "in_mutex"
  /\ \A k \in DocIds : holder[k] # 0 => (holder[k] # _locks_mutex /\ tpc[holder[k]] \in InLock)

C30_AddsAlwaysReturn ==
  /\ []MutexOutsideDocLocks
  /\ \A c \in Calls : (tpc[c] # "none") ~> (tpc[c] = "done")

(* Two calls for the same doc_id, each called before the other returned,   *)
(* have both returned, one after waiting for the lock the other held; no   *)
(* lock is held.                                                           *)
C30_Witness ==
  /\ \E c1, c2 \in Calls :
       /\ c1 # c2 /\ doc(c1) = doc(c2) /\ doc(c1) # NoDoc
       /\ tpc[c1] = "done" /\ tpc[c2] = "done"
       /\ doneAtIssue[c1] = {} /\ doneAtIssue[c2] = {}
       /\ result[c1] = "true" /\ result[c2] = "false" /\ ex[c2] = "true"
  /\ \A c \in Calls : tpc[c] \in {"none", "done"}
  /\ \A k \in DocIds : holder[k] = 0
  /\ _locks_mutex = 0

=============================================================================
